---- MODULE Spec2Model ----
(***************************************************************************)
(* The in-memory library store of src/Library/requests.py                  *)
(* (create_fastapi_app): the user, token, book and loan tables and the     *)
(* four mutating handlers signup, login, create_book and borrow_book,      *)
(* with the two dependencies get_current_user and require_admin.           *)
(*                                                                         *)
(* Strings are kept as strings.  A payload is a value of its Pydantic      *)
(* class, so the handlers' inputs range over the values the class admits.  *)
(* Fields no handler branches on (email, full_name, title, author,         *)
(* category, borrowed_at) are carried data and are left out of the         *)
(* records.  The read-only endpoints (GET /books, GET /users/me/loans)     *)
(* change nothing and are not modelled.                                    *)
(*                                                                         *)
(* Spec takes the requests one at a time, each from its dependency to its  *)
(* response in one step.  SpecConc takes borrow requests of several        *)
(* clients in flight together, split where the event loop can switch.      *)
(***************************************************************************)
EXTENDS Integers, Sequences, FiniteSets, TLC

\* ------------------------------------------------------------------ bounds
MaxCopies == 2      \* largest total_copies a create-book request carries
MaxLoans  == 3      \* borrow requests are taken while next_loan_id <= MaxLoans

Usernames == {"john_doe", "jane_roe"}
Passwords == {"securepass123", "letmein456"}
Isbns     == {"978-0123456789", "978-9876543210"}
Tokens    == {"tok_A", "tok_B"}
Clients   == {"c1", "c2"}
\* the ids a borrow request carries: every id a user or a book can get
Ids       == 1..Cardinality(Isbns)

\* ------------------------------------------------------------------ state
VARIABLES
    users_by_id,            \* Dict[int, UserRecord]
    user_id_by_username,    \* Dict[str, int]
    tokens_to_user_id,      \* Dict[str, int]
    books_by_id,            \* Dict[int, BookOut]
    next_book_id,
    loans,                  \* List[LoanOut]
    next_loan_id,
    response,               \* the response to the last completed request
    pending                 \* per client: the borrow request between its dependency
                            \* (get_current_user) and its handler

tables == <<users_by_id, user_id_by_username, tokens_to_user_id,
            books_by_id, next_book_id, loans, next_loan_id>>
vars == <<users_by_id, user_id_by_username, tokens_to_user_id,
          books_by_id, next_book_id, loans, next_loan_id, response, pending>>

\* ------------------------------------------------------------------ helpers
None == "None"
EmptyDict == <<>>
\* d[k] = v of a Python dict: adds the key or overwrites its value
Put(d, k, v) == [x \in (DOMAIN d) \cup {k} |-> IF x = k THEN v ELSE d[x]]

RECURSIVE SetMax(_)
SetMax(S) == IF Cardinality(S) = 1 THEN CHOOSE x \in S : TRUE
             ELSE LET x == CHOOSE y \in S : TRUE
                      m == SetMax(S \ {x})
                  IN IF x > m THEN x ELSE m

\* a digest: one value per password, distinct from the password itself
_hash_password(pw) == <<"sha256", pw>>

\* ------------------------------------------------------------------ payloads
SignupRequest     == [username : Usernames, password : Passwords]
LoginRequest      == [username : Usernames, password : Passwords]
BookCreateRequest == [isbn : Isbns, total_copies : 1..MaxCopies]
BorrowRequest     == [book_id : Ids, user_id : Ids]
\* the Authorization header: a scheme word and what follows the first space
Authorizations    == {a \in [scheme : {"bearer", "basic"}, token : Tokens] :
                          a.scheme = "bearer" \/ a.token = "tok_A"}

Http(op, status, body) == [op |-> op, status |-> status, body |-> body]

\* ------------------------------------------------------------------ dependencies
get_current_user(authorization) ==
    IF authorization.scheme # "bearer"
    THEN [status |-> 401, detail |-> "Invalid Authorization header", user |-> None]
    ELSE IF \/ authorization.token \notin DOMAIN tokens_to_user_id
            \/ tokens_to_user_id[authorization.token] \notin DOMAIN users_by_id
         THEN [status |-> 401, detail |-> "Invalid or expired token", user |-> None]
         ELSE [status |-> 200, detail |-> None,
               user |-> users_by_id[tokens_to_user_id[authorization.token]]]

\* require_admin without the role test
require_admin_any_user(authorization) ==
    get_current_user(authorization)

require_admin(authorization) ==
    LET r == get_current_user(authorization)
    IN IF r.status # 200 THEN r
       ELSE IF r.user.role # "admin"
            THEN [status |-> 403, detail |-> "Admin privileges required", user |-> None]
            ELSE r

\* ------------------------------------------------------------------ handlers
\* signup without the duplicate-username test
signup_no_duplicate_test(payload) ==
    LET new_id == IF DOMAIN users_by_id # {}
                  THEN SetMax(DOMAIN users_by_id) + 1 ELSE 1
        role   == IF new_id = 1 THEN "admin" ELSE "user"
        user   == [id |-> new_id, username |-> payload.username,
                   password_hash |-> _hash_password(payload.password),
                   role |-> role]
    IN /\ users_by_id' = Put(users_by_id, user.id, user)
       /\ user_id_by_username' = Put(user_id_by_username, user.username, user.id)
       /\ response' = Http("signup", 200,
                           [id |-> user.id, username |-> user.username,
                            role |-> user.role])
       /\ UNCHANGED <<tokens_to_user_id, books_by_id, next_book_id,
                      loans, next_loan_id>>

signup(payload) ==
    IF payload.username \in DOMAIN user_id_by_username
    THEN /\ response' = Http("signup", 400, "Username already exists")
         /\ UNCHANGED tables
    ELSE LET new_id == IF DOMAIN users_by_id # {}
                       THEN SetMax(DOMAIN users_by_id) + 1 ELSE 1
             role   == IF new_id = 1 THEN "admin" ELSE "user"
             user   == [id |-> new_id, username |-> payload.username,
                        password_hash |-> _hash_password(payload.password),
                        role |-> role]
         IN /\ users_by_id' = Put(users_by_id, user.id, user)
            /\ user_id_by_username' = Put(user_id_by_username, user.username, user.id)
            /\ response' = Http("signup", 200,
                                [id |-> user.id, username |-> user.username,
                                 role |-> user.role])
            /\ UNCHANGED <<tokens_to_user_id, books_by_id, next_book_id,
                           loans, next_loan_id>>

\* login that keeps one session: the new token replaces the token table
login_single_session(payload, token) ==
    IF payload.username \notin DOMAIN user_id_by_username
    THEN /\ response' = Http("login", 401, "Invalid credentials")
         /\ UNCHANGED tables
    ELSE LET user == users_by_id[user_id_by_username[payload.username]]
         IN IF user.password_hash # _hash_password(payload.password)
            THEN /\ response' = Http("login", 401, "Invalid credentials")
                 /\ UNCHANGED tables
            ELSE /\ tokens_to_user_id' = Put(EmptyDict, token, user.id)
                 /\ response' = Http("login", 200, [access_token |-> token])
                 /\ UNCHANGED <<users_by_id, user_id_by_username, books_by_id,
                                next_book_id, loans, next_loan_id>>

login(payload, token) ==
    IF payload.username \notin DOMAIN user_id_by_username
    THEN /\ response' = Http("login", 401, "Invalid credentials")
         /\ UNCHANGED tables
    ELSE LET user == users_by_id[user_id_by_username[payload.username]]
         IN IF user.password_hash # _hash_password(payload.password)
            THEN /\ response' = Http("login", 401, "Invalid credentials")
                 /\ UNCHANGED tables
            ELSE /\ tokens_to_user_id' = Put(tokens_to_user_id, token, user.id)
                 /\ response' = Http("login", 200, [access_token |-> token])
                 /\ UNCHANGED <<users_by_id, user_id_by_username, books_by_id,
                                next_book_id, loans, next_loan_id>>

\* create_book without the ISBN scan
create_book_no_isbn_scan(payload, admin) ==
    LET book == [id |-> next_book_id, isbn |-> payload.isbn,
                 total_copies |-> payload.total_copies,
                 available_copies |-> payload.total_copies]
    IN /\ books_by_id' = Put(books_by_id, book.id, book)
       /\ next_book_id' = next_book_id + 1
       /\ response' = Http("create_book", 200, book)
       /\ UNCHANGED <<users_by_id, user_id_by_username, tokens_to_user_id,
                      loans, next_loan_id>>

create_book(payload, admin) ==
    IF \E i \in DOMAIN books_by_id : books_by_id[i].isbn = payload.isbn
    THEN /\ response' = Http("create_book", 400, "ISBN already exists")
         /\ UNCHANGED tables
    ELSE LET book == [id |-> next_book_id, isbn |-> payload.isbn,
                      total_copies |-> payload.total_copies,
                      available_copies |-> payload.total_copies]
         IN /\ books_by_id' = Put(books_by_id, book.id, book)
            /\ next_book_id' = next_book_id + 1
            /\ response' = Http("create_book", 200, book)
            /\ UNCHANGED <<users_by_id, user_id_by_username, tokens_to_user_id,
                           loans, next_loan_id>>

\* the successful branch of borrow_book with its parts open to change:
\* the book record written back, and the step of next_loan_id
BorrowWrites(payload, user, newbook, step) ==
    LET loan == [id |-> next_loan_id, user_id |-> user.id,
                 book_id |-> payload.book_id, returned_at |-> None]
    IN /\ books_by_id' = Put(books_by_id, payload.book_id, newbook)
       /\ loans' = Append(loans, loan)
       /\ next_loan_id' = next_loan_id + step
       /\ response' = Http("borrow", 200, loan)
       /\ UNCHANGED <<users_by_id, user_id_by_username, tokens_to_user_id,
                      next_book_id>>

BorrowRefused(status, detail) ==
    /\ response' = Http("borrow", status, detail)
    /\ UNCHANGED tables

\* borrow_book that lowers total_copies instead of available_copies
borrow_book_wrong_field(payload, user) ==
    IF payload.user_id # user.id
    THEN BorrowRefused(403, "Cannot borrow for another user")
    ELSE IF payload.book_id \notin DOMAIN books_by_id
    THEN BorrowRefused(404, "Book not found")
    ELSE IF books_by_id[payload.book_id].available_copies <= 0
    THEN BorrowRefused(400, "No available copies")
    ELSE LET book == books_by_id[payload.book_id]
         IN BorrowWrites(payload, user,
                         [book EXCEPT !.total_copies = book.total_copies - 1], 1)

\* borrow_book whose availability test is < 0 instead of <= 0
borrow_book_off_by_one(payload, user) ==
    IF payload.user_id # user.id
    THEN BorrowRefused(403, "Cannot borrow for another user")
    ELSE IF payload.book_id \notin DOMAIN books_by_id
    THEN BorrowRefused(404, "Book not found")
    ELSE IF books_by_id[payload.book_id].available_copies < 0
    THEN BorrowRefused(400, "No available copies")
    ELSE LET book == books_by_id[payload.book_id]
         IN BorrowWrites(payload, user,
                         [book EXCEPT !.available_copies = book.available_copies - 1], 1)

\* borrow_book that looks the book up before it compares the user ids
borrow_book_lookup_first(payload, user) ==
    IF payload.book_id \notin DOMAIN books_by_id
    THEN BorrowRefused(404, "Book not found")
    ELSE IF payload.user_id # user.id
    THEN BorrowRefused(403, "Cannot borrow for another user")
    ELSE IF books_by_id[payload.book_id].available_copies <= 0
    THEN BorrowRefused(400, "No available copies")
    ELSE LET book == books_by_id[payload.book_id]
         IN BorrowWrites(payload, user,
                         [book EXCEPT !.available_copies = book.available_copies - 1], 1)

\* borrow_book that forgets next_loan_id += 1
borrow_book_stale_loan_id(payload, user) ==
    IF payload.user_id # user.id
    THEN BorrowRefused(403, "Cannot borrow for another user")
    ELSE IF payload.book_id \notin DOMAIN books_by_id
    THEN BorrowRefused(404, "Book not found")
    ELSE IF books_by_id[payload.book_id].available_copies <= 0
    THEN BorrowRefused(400, "No available copies")
    ELSE LET book == books_by_id[payload.book_id]
         IN BorrowWrites(payload, user,
                         [book EXCEPT !.available_copies = book.available_copies - 1], 0)

borrow_book(payload, user) ==
    IF payload.user_id # user.id
    THEN /\ response' = Http("borrow", 403, "Cannot borrow for another user")
         /\ UNCHANGED tables
    ELSE IF payload.book_id \notin DOMAIN books_by_id
    THEN /\ response' = Http("borrow", 404, "Book not found")
         /\ UNCHANGED tables
    ELSE IF books_by_id[payload.book_id].available_copies <= 0
    THEN /\ response' = Http("borrow", 400, "No available copies")
         /\ UNCHANGED tables
    ELSE LET book == books_by_id[payload.book_id]
             loan == [id |-> next_loan_id, user_id |-> user.id,
                      book_id |-> payload.book_id, returned_at |-> None]
         IN /\ books_by_id' = Put(books_by_id, payload.book_id,
                                  [book EXCEPT !.available_copies =
                                                   book.available_copies - 1])
            /\ loans' = Append(loans, loan)
            /\ next_loan_id' = next_loan_id + 1
            /\ response' = Http("borrow", 200, loan)
            /\ UNCHANGED <<users_by_id, user_id_by_username, tokens_to_user_id,
                           next_book_id>>

\* a request a dependency turned away: the handler never runs
Denied(op, dep) ==
    /\ response' = Http(op, dep.status, dep.detail)
    /\ UNCHANGED tables

\* ------------------------------------------------------------------ requests, one at a time
Idle == [state |-> "idle"]

Init ==
    /\ users_by_id = EmptyDict
    /\ user_id_by_username = EmptyDict
    /\ tokens_to_user_id = EmptyDict
    /\ books_by_id = EmptyDict
    /\ next_book_id = 1
    /\ loans = <<>>
    /\ next_loan_id = 1
    /\ response = Http("none", 0, None)
    /\ pending = [c \in Clients |-> Idle]

PostSignup(payload) ==
    /\ signup(payload)
    /\ UNCHANGED pending

\* secrets.token_urlsafe(32) returns a string no earlier call returned; login
\* requests are taken while such a string is left in Tokens
PostLogin(payload) ==
    /\ \E token \in Tokens \ DOMAIN tokens_to_user_id : login(payload, token)
    /\ UNCHANGED pending

PostBooks(authorization, payload) ==
    /\ LET dep == require_admin(authorization)
       IN IF dep.status # 200 THEN Denied("create_book", dep)
          ELSE create_book(payload, dep.user)
    /\ UNCHANGED pending

PostBorrow(authorization, payload) ==
    /\ LET dep == get_current_user(authorization)
       IN IF dep.status # 200 THEN Denied("borrow", dep)
          ELSE borrow_book(payload, dep.user)
    /\ UNCHANGED pending

Signup == \E p \in SignupRequest : PostSignup(p)
Login == \E p \in LoginRequest : PostLogin(p)
CreateBook == \E a \in Authorizations, p \in BookCreateRequest : PostBooks(a, p)
Borrow ==
    /\ next_loan_id <= MaxLoans
    /\ \E a \in Authorizations, p \in BorrowRequest : PostBorrow(a, p)

Next == Signup \/ Login \/ CreateBook \/ Borrow

Spec == Init /\ [][Next]_vars

\* ------------------------------------------------------------------ borrow requests in flight together
(***************************************************************************)
(* FastAPI resolves Depends(get_current_user), a plain def, in a worker    *)
(* thread and awaits it; the handler borrow_book is a coroutine whose body *)
(* has no await, so the event loop runs lines 244-264 of one request       *)
(* without running anything of another.  A request is therefore two steps: *)
(* Receive (the dependency) and Handle (the handler body).  Other requests *)
(* may run between the two.                                                *)
(*                                                                         *)
(* The store starts as two signups, two logins and one create_book leave   *)
(* it.  seen is a history value, read by nothing in the code: the          *)
(* available_copies of the requested book as the request was received.     *)
(***************************************************************************)
InitConc ==
    /\ users_by_id = <<[id |-> 1, username |-> "john_doe",
                        password_hash |-> _hash_password("securepass123"),
                        role |-> "admin"],
                       [id |-> 2, username |-> "jane_roe",
                        password_hash |-> _hash_password("letmein456"),
                        role |-> "user"]>>
    /\ user_id_by_username = [n \in Usernames |-> IF n = "john_doe" THEN 1 ELSE 2]
    /\ tokens_to_user_id = [k \in Tokens |-> IF k = "tok_A" THEN 1 ELSE 2]
    /\ \E total \in 1..MaxCopies :
          LET book == [id |-> 1, isbn |-> "978-0123456789",
                       total_copies |-> total, available_copies |-> total]
          IN /\ books_by_id = <<book>>
             /\ response = Http("create_book", 200, book)
    /\ next_book_id = 2
    /\ loans = <<>>
    /\ next_loan_id = 1
    /\ pending = [c \in Clients |-> Idle]

Seen(payload) ==
    IF payload.book_id \in DOMAIN books_by_id
    THEN books_by_id[payload.book_id].available_copies ELSE -1

Receive(c) ==
    /\ pending[c].state = "idle"
    /\ \E a \in Authorizations, p \in BorrowRequest :
          LET dep == get_current_user(a)
          IN IF dep.status # 200
             THEN Denied("borrow", dep) /\ UNCHANGED pending
             ELSE /\ pending' = [pending EXCEPT ![c] =
                                    [state |-> "admitted", user |-> dep.user,
                                     payload |-> p, seen |-> Seen(p)]]
                  /\ UNCHANGED <<tables, response>>

\* a handler that tests and writes back the count as it was when the request
\* was received, not as it is when the handler runs
HandleStale(c) ==
    /\ pending[c].state = "admitted"
    /\ LET payload == pending[c].payload
           user    == pending[c].user
       IN IF payload.user_id # user.id
          THEN BorrowRefused(403, "Cannot borrow for another user")
          ELSE IF payload.book_id \notin DOMAIN books_by_id
          THEN BorrowRefused(404, "Book not found")
          ELSE IF pending[c].seen <= 0
          THEN BorrowRefused(400, "No available copies")
          ELSE BorrowWrites(payload, user,
                            [books_by_id[payload.book_id] EXCEPT
                                 !.available_copies = pending[c].seen - 1], 1)
    /\ pending' = [pending EXCEPT ![c] = Idle]

Handle(c) ==
    /\ pending[c].state = "admitted"
    /\ borrow_book(pending[c].payload, pending[c].user)
    /\ pending' = [pending EXCEPT ![c] = Idle]

NextConc == \E c \in Clients : Receive(c) \/ Handle(c)

SpecConc == InitConc /\ [][NextConc]_vars

\* ------------------------------------------------------------------ what the claims speak of
LoansOf(b) == {i \in DOMAIN loans : loans[i].book_id = b}
ValidToken(a) == a.scheme = "bearer" /\ a.token \in DOMAIN tokens_to_user_id
TokenUser(a) == users_by_id[tokens_to_user_id[a.token]]
IsPrefix(s, t) == Len(s) <= Len(t) /\ \A i \in 1..Len(s) : t[i] = s[i]

\* the step answers the request: the response is the request's kind, and the
\* step is the one the request takes
SignupStep(p) == response'.op = "signup" /\ PostSignup(p)
CreateBookStep(a, p) == response'.op = "create_book" /\ PostBooks(a, p)
BorrowStep(a, p) == response'.op = "borrow" /\ PostBorrow(a, p)

\* ------------------------------------------------------------------ claims

\* C1: every successful borrow lowers available_copies of the requested book
\* by exactly one, appends exactly one loan record for (authenticated user,
\* that book), and leaves total_copies of that book and every field of every
\* other book unchanged.
C1_BorrowLowersByOne ==
    [][response'.op = "borrow" => \A a \in Authorizations, p \in BorrowRequest :
         (response'.status = 200 /\ BorrowStep(a, p)) =>
            /\ ValidToken(a)
            /\ p.book_id \in DOMAIN books_by_id
            /\ DOMAIN books_by_id' = DOMAIN books_by_id
            /\ books_by_id'[p.book_id].available_copies
                   = books_by_id[p.book_id].available_copies - 1
            /\ books_by_id'[p.book_id].total_copies
                   = books_by_id[p.book_id].total_copies
            /\ books_by_id'[p.book_id].isbn = books_by_id[p.book_id].isbn
            /\ books_by_id'[p.book_id].id = books_by_id[p.book_id].id
            /\ \A o \in DOMAIN books_by_id \ {p.book_id} :
                   books_by_id'[o] = books_by_id[o]
            /\ Len(loans') = Len(loans) + 1
            /\ IsPrefix(loans, loans')
            /\ loans'[Len(loans')].user_id = TokenUser(a).id
            /\ loans'[Len(loans')].book_id = p.book_id
            /\ response'.body = loans'[Len(loans')]
      ]_vars

C1_Witness ==
    /\ response.op = "borrow" /\ response.status = 200
    /\ Cardinality(DOMAIN books_by_id) = 2
    /\ response.body.user_id = 2
    /\ books_by_id[response.body.book_id].total_copies = MaxCopies
    /\ books_by_id[response.body.book_id].available_copies = MaxCopies - 1

\* C2: a borrow request by an authenticated user for their own user_id on an
\* existing book whose available_copies is 0 is rejected with status 400, and
\* the rejection changes nothing: available_copies stays 0, no loan is
\* appended and the next loan id is not consumed.
C2_NoCopiesRejected ==
    [][response'.op = "borrow" => \A a \in Authorizations, p \in BorrowRequest :
         ( /\ ValidToken(a)
           /\ p.user_id = TokenUser(a).id
           /\ p.book_id \in DOMAIN books_by_id
           /\ books_by_id[p.book_id].available_copies = 0
           /\ BorrowStep(a, p) ) =>
            /\ response'.op = "borrow"
            /\ response'.status = 400
            /\ books_by_id'[p.book_id].available_copies = 0
            /\ loans' = loans
            /\ next_loan_id' = next_loan_id
            /\ UNCHANGED tables
      ]_vars

C2_Witness ==
    /\ response = Http("borrow", 400, "No available copies")
    /\ \E b \in DOMAIN books_by_id :
          /\ books_by_id[b].available_copies = 0
          /\ books_by_id[b].total_copies = MaxCopies

\* C3: a signup whose username is already registered is rejected with status
\* 400 and changes nothing: no user record is added, the existing record for
\* that username is not overwritten, and every issued token keeps mapping to
\* the same user.
C3_DuplicateSignupRejected ==
    [][response'.op = "signup" => \A p \in SignupRequest :
         (p.username \in DOMAIN user_id_by_username /\ SignupStep(p)) =>
            /\ response'.op = "signup"
            /\ response'.status = 400
            /\ users_by_id' = users_by_id
            /\ user_id_by_username' = user_id_by_username
            /\ tokens_to_user_id' = tokens_to_user_id
            /\ UNCHANGED tables
      ]_vars

C3_Witness ==
    /\ response = Http("signup", 400, "Username already exists")
    /\ Cardinality(DOMAIN users_by_id) = 2
    /\ DOMAIN tokens_to_user_id = Tokens

\* C4: in every reachable state every book satisfies
\* 0 <= available_copies <= total_copies, and a new book starts with
\* available_copies = total_copies >= 1.
C4_AvailableWithinTotal ==
    /\ \A b \in DOMAIN books_by_id :
          /\ 0 <= books_by_id[b].available_copies
          /\ books_by_id[b].available_copies <= books_by_id[b].total_copies
          /\ books_by_id[b].total_copies >= 1
    /\ (response.op = "create_book" /\ response.status = 200) =>
          /\ response.body.available_copies = response.body.total_copies
          /\ response.body.total_copies >= 1
          /\ books_by_id[response.body.id] = response.body

C4_Witness ==
    /\ \E b \in DOMAIN books_by_id :
          books_by_id[b].available_copies = 0 /\ books_by_id[b].total_copies = MaxCopies
    /\ \E b \in DOMAIN books_by_id :
          books_by_id[b].available_copies = books_by_id[b].total_copies

\* C5: no two user records share a username and no two books share an ISBN;
\* user ids and book ids are pairwise distinct, and the username index maps
\* each username to the id of the one record carrying it.
C5_UniqueNamesAndIds ==
    /\ \A i, j \in DOMAIN users_by_id :
          i # j => /\ users_by_id[i].username # users_by_id[j].username
                   /\ users_by_id[i].id # users_by_id[j].id
    /\ \A i, j \in DOMAIN books_by_id :
          i # j => /\ books_by_id[i].isbn # books_by_id[j].isbn
                   /\ books_by_id[i].id # books_by_id[j].id
    /\ \A i \in DOMAIN users_by_id : users_by_id[i].id = i
    /\ \A i \in DOMAIN books_by_id : books_by_id[i].id = i
    /\ DOMAIN user_id_by_username = {users_by_id[i].username : i \in DOMAIN users_by_id}
    /\ \A n \in DOMAIN user_id_by_username :
          /\ user_id_by_username[n] \in DOMAIN users_by_id
          /\ users_by_id[user_id_by_username[n]].username = n

C5_Witness ==
    /\ Cardinality(DOMAIN users_by_id) = 2
    /\ Cardinality(DOMAIN books_by_id) = 2
    /\ response = Http("create_book", 400, "ISBN already exists")

\* C6: POST /books is admin-only: a book is added only when the bearer token
\* maps to a user whose role is admin (the user with id 1 and nobody else); a
\* valid token of a non-admin user is rejected with 403 and an unknown token
\* with 401, and in both cases the book table and next book id are unchanged.
C6_CreateBookAdminOnly ==
    [][/\ \A i \in DOMAIN users_by_id' : (users_by_id'[i].role = "admin") <=> (i = 1)
       /\ response'.op = "create_book" => \A a \in Authorizations, p \in BookCreateRequest :
             /\ ( /\ (books_by_id' # books_by_id \/ next_book_id' # next_book_id)
                  /\ CreateBookStep(a, p) ) =>
                   /\ ValidToken(a)
                   /\ TokenUser(a).role = "admin"
                   /\ TokenUser(a).id = 1
             /\ (ValidToken(a) /\ TokenUser(a).role # "admin" /\ CreateBookStep(a, p)) =>
                   /\ response'.op = "create_book" /\ response'.status = 403
                   /\ books_by_id' = books_by_id
                   /\ next_book_id' = next_book_id
             /\ (a.token \notin DOMAIN tokens_to_user_id /\ CreateBookStep(a, p)) =>
                   /\ response'.op = "create_book" /\ response'.status = 401
                   /\ books_by_id' = books_by_id
                   /\ next_book_id' = next_book_id
      ]_vars

C6_Witness ==
    /\ response = Http("create_book", 403, "Admin privileges required")
    /\ books_by_id # EmptyDict

\* C7: a borrow request with a valid token fails with 403 when the payload
\* user_id differs from the id of the token's user, and with 404 when user_id
\* matches but book_id names no existing book; an unknown token fails with
\* 401.  The ownership check comes first (a mismatching user_id on a missing
\* book gives 403), and each of these failures leaves the book table and the
\* loan list unchanged.
C7_BorrowFailures ==
    [][response'.op = "borrow" => \A a \in Authorizations, p \in BorrowRequest :
         /\ (ValidToken(a) /\ p.user_id # TokenUser(a).id /\ BorrowStep(a, p)) =>
               /\ response'.op = "borrow" /\ response'.status = 403
               /\ books_by_id' = books_by_id /\ loans' = loans
         /\ ( /\ ValidToken(a) /\ p.user_id = TokenUser(a).id
              /\ p.book_id \notin DOMAIN books_by_id /\ BorrowStep(a, p) ) =>
               /\ response'.op = "borrow" /\ response'.status = 404
               /\ books_by_id' = books_by_id /\ loans' = loans
         /\ (a.token \notin DOMAIN tokens_to_user_id /\ BorrowStep(a, p)) =>
               /\ response'.op = "borrow" /\ response'.status = 401
               /\ books_by_id' = books_by_id /\ loans' = loans
      ]_vars

\* a 403 while no book exists: the book asked for was missing, whichever it was
C7_Witness ==
    /\ response = Http("borrow", 403, "Cannot borrow for another user")
    /\ books_by_id = EmptyDict

\* C8: nothing is ever deleted or returned to inventory: the sets of users,
\* tokens, books and loans only grow, a token once issued keeps authenticating
\* the same user, every loan keeps returned_at empty, and the
\* available_copies of a book never increases.
C8_OnlyGrows ==
    [][/\ \A i \in DOMAIN users_by_id :
             i \in DOMAIN users_by_id' /\ users_by_id'[i] = users_by_id[i]
       /\ \A n \in DOMAIN user_id_by_username :
             /\ n \in DOMAIN user_id_by_username'
             /\ user_id_by_username'[n] = user_id_by_username[n]
       /\ \A t \in DOMAIN tokens_to_user_id :
             /\ t \in DOMAIN tokens_to_user_id'
             /\ tokens_to_user_id'[t] = tokens_to_user_id[t]
             /\ get_current_user([scheme |-> "bearer", token |-> t])'
                   = get_current_user([scheme |-> "bearer", token |-> t])
             /\ get_current_user([scheme |-> "bearer", token |-> t]).status = 200
       /\ \A b \in DOMAIN books_by_id :
             /\ b \in DOMAIN books_by_id'
             /\ books_by_id'[b].available_copies <= books_by_id[b].available_copies
             /\ books_by_id'[b].total_copies = books_by_id[b].total_copies
             /\ books_by_id'[b].isbn = books_by_id[b].isbn
       /\ IsPrefix(loans, loans')
       /\ \A i \in DOMAIN loans' : loans'[i].returned_at = None
       /\ next_book_id' >= next_book_id
       /\ next_loan_id' >= next_loan_id
      ]_vars

C8_Witness ==
    /\ DOMAIN tokens_to_user_id = Tokens
    /\ tokens_to_user_id["tok_A"] # tokens_to_user_id["tok_B"]
    /\ Cardinality(DOMAIN books_by_id) = 2
    /\ Len(loans) = MaxLoans
    /\ \E b \in DOMAIN books_by_id : books_by_id[b].available_copies = 0

\* C9 as stated: concurrent borrow requests on the same book race on its
\* available_copies counter: the read of the counter and the write of
\* counter-1 are not synchronized, so two requests that both read the same
\* value both succeed.  Over all interleavings: a borrow request for its own
\* user that read an available count >= 1 as it came in succeeds and writes
\* that count minus one, whatever other borrows completed in between.
C9_ReadBeforeOthersDecides ==
    [][\A c \in Clients :
         ( /\ pending[c].state = "admitted"
           /\ pending[c].seen >= 1
           /\ pending[c].payload.user_id = pending[c].user.id
           /\ pending'[c].state = "idle" ) =>
            /\ response'.status = 200
            /\ books_by_id'[pending[c].payload.book_id].available_copies
                   = pending[c].seen - 1
      ]_vars

\* C9, amended: borrow_book tests and lowers the counter in one step of the
\* event loop, so under every interleaving of concurrent borrow requests no
\* copy is lent twice: available_copies never drops below 0, the loans of a
\* book never exceed its total_copies, and every loan lowered the counter by
\* one.
C9_NoCopyLentTwice ==
    \A b \in DOMAIN books_by_id :
       /\ books_by_id[b].available_copies >= 0
       /\ Cardinality(LoansOf(b)) <= books_by_id[b].total_copies
       /\ books_by_id[b].available_copies
              = books_by_id[b].total_copies - Cardinality(LoansOf(b))

\* a request that came in while the last copy was there is still in flight,
\* and another request has taken that copy meanwhile
C9_Witness ==
    \E c \in Clients :
       /\ pending[c].state = "admitted"
       /\ pending[c].seen = 1
       /\ pending[c].payload.user_id = pending[c].user.id
       /\ books_by_id[pending[c].payload.book_id].available_copies = 0
       /\ response.op = "borrow" /\ response.status = 200
       /\ response.body.book_id = pending[c].payload.book_id

\* C10: copies are conserved: for every book total_copies - available_copies
\* equals the number of loan records whose book_id is that book; every loan
\* refers to an existing user and an existing book, and loan ids are 1..n in
\* creation order with no repeats.
C10_CopiesConserved ==
    /\ \A b \in DOMAIN books_by_id :
          books_by_id[b].total_copies - books_by_id[b].available_copies
              = Cardinality(LoansOf(b))
    /\ \A i \in DOMAIN loans :
          /\ loans[i].user_id \in DOMAIN users_by_id
          /\ loans[i].book_id \in DOMAIN books_by_id
          /\ loans[i].id = i
    /\ next_loan_id = Len(loans) + 1

C10_Witness ==
    /\ Len(loans) = MaxLoans
    /\ \E i, j \in DOMAIN loans :
          loans[i].user_id # loans[j].user_id /\ loans[i].book_id # loans[j].book_id
    /\ \E b \in DOMAIN books_by_id : Cardinality(LoansOf(b)) = MaxCopies

====
